---- MODULE Spec2Model ----
(***************************************************************************)
(* Model of src/index.tsx: the FileEditPreview component, which renders a  *)
(* list of unified-diff hunks, and the formatDiff closure of               *)
(* StructuredDiff, which classifies the raw lines of one hunk, pairs       *)
(* removed lines with a following added line, renders every line as a row  *)
(* (with a word diff for paired lines) and pads the line numbers.          *)
(*                                                                         *)
(* Strings are sequences of one-character strings.  Indices into lines,    *)
(* processedLines and result are 0-based as in the source; element k of    *)
(* the source array is element k + 1 of the sequence that models it.       *)
(***************************************************************************)
EXTENDS Integers, Sequences, FiniteSets, TLC

VARIABLES
    hunks,           \* props.hunks of FileEditPreview
    pc,              \* position of the render: "flatMap", "formatDiff", "done"
    hunkIndex,       \* index i of the flatMap callback (line 54)
    output,          \* children of the outer Box built by flatMap (lines 54-72)
    processedLines,  \* formatDiff: processedLines (line 166)
    linePairs,       \* formatDiff: linePairs (line 181)
    i,               \* formatDiff: loop index of the row loop (line 205)
    lineNumber,      \* formatDiff: lineNumber counter (line 198)
    result,          \* formatDiff: result (line 199)
    locals,          \* formatDiff: per iteration of the row loop, its locals pair,
                     \* removedText and addedText (wordDiffOf) and wordDiff
    wordDiffs,       \* the calls of diffWordsWithSpace answered so far
    diff             \* StructuredDiff: diff, the rows formatDiff returned (line 296)

vars == <<hunks, pc, hunkIndex, output, processedLines, linePairs, i,
          lineNumber, result, locals, wordDiffs, diff>>

----------------------------------------------------------------------------
(* Bounds of the model. *)

\* Longest line list of a hunk of the numbering family.
MaxLines == 4
\* Longest line list of a hunk of the text family.
MaxTextLines == 3
\* Longest raw line of the classification family.
MaxLineLen == 3
\* Longest hunk list of the multi-hunk family.
MaxHunks == 3
\* Most parts a word diff returns.
MaxParts == 3

----------------------------------------------------------------------------
(* Strings. *)

\* String.prototype.startsWith for a one-character prefix.
startsWith(code, c) == Len(code) >= 1 /\ code[1] = c

\* String.prototype.slice(1).
slice1(code) == IF Len(code) = 0 THEN <<>> ELSE Tail(code)

RECURSIVE toString(_)
\* Number.prototype.toString() of a non-negative integer: its decimal digits.
toString(n) ==
    LET digit == <<"0", "1", "2", "3", "4", "5", "6", "7", "8", "9">>
    IN  IF n < 10 THEN <<digit[n + 1]>>
        ELSE toString(n \div 10) \o <<digit[(n % 10) + 1]>>

\* String.prototype.padStart(width): pads with spaces on the left, never cuts.
padStart(s, width) ==
    [k \in 1..(IF width > Len(s) THEN width - Len(s) ELSE 0) |-> " "] \o s

RECURSIVE concat(_)
\* The text of a sequence of strings laid out one after the other.
concat(ss) == IF ss = <<>> THEN <<>> ELSE Head(ss) \o concat(Tail(ss))

----------------------------------------------------------------------------
(* formatDiff: classification (lines 166-178). *)

\* A classification that drops the marker without putting the space.
processedLineNoSpace(code) ==
    IF startsWith(code, "+")
    THEN [code |-> slice1(code), type |-> "add", originalCode |-> code]
    ELSE IF startsWith(code, "-")
    THEN [code |-> slice1(code), type |-> "remove", originalCode |-> code]
    ELSE [code |-> code, type |-> "nochange", originalCode |-> code]

processedLine(code) ==
    IF startsWith(code, "+")
    THEN [code |-> <<" ">> \o slice1(code), type |-> "add", originalCode |-> code]
    ELSE IF startsWith(code, "-")
    THEN [code |-> <<" ">> \o slice1(code), type |-> "remove", originalCode |-> code]
    ELSE [code |-> code, type |-> "nochange", originalCode |-> code]

\* lines.map(...), order preserved.
processLines(lines) == [k \in 1..Len(lines) |-> processedLine(lines[k])]

----------------------------------------------------------------------------
(* formatDiff: pairing (lines 181-196). *)

\* A pairing that forgets the while loop: only the line right after is tried.
lookAheadNoSkip(pl, j) == j

RECURSIVE lookAhead(_, _)
\* The while loop of lines 186-191: the first index >= j whose line is not a
\* remove, or processedLines.length.
lookAhead(pl, j) ==
    IF j < Len(pl) /\ pl[j + 1].type = "remove" THEN lookAhead(pl, j + 1) ELSE j

\* A pairing that forgets to test that the line found is an add.
pairsAtAnyFollower(pl, k) ==
    IF pl[k + 1].type = "remove"
    THEN LET j == lookAhead(pl, k + 1)
         IN  IF j < Len(pl) THEN <<[remove |-> k, add |-> j]>> ELSE <<>>
    ELSE <<>>

\* The body of the for loop for one index (lines 183-195): the pairs it pushes.
pairsAt(pl, k) ==
    IF pl[k + 1].type = "remove"
    THEN LET j == lookAhead(pl, k + 1)
         IN  IF j < Len(pl) /\ pl[j + 1].type = "add"
             THEN <<[remove |-> k, add |-> j]>>
             ELSE <<>>
    ELSE <<>>

RECURSIVE buildLinePairs(_, _)
\* The for loop of lines 182-196 from index k on; pairs are pushed in index order.
buildLinePairs(pl, k) ==
    IF k < Len(pl) THEN pairsAt(pl, k) \o buildLinePairs(pl, k + 1) ELSE <<>>

RECURSIVE findLast(_, _)
\* A lookup that returns the last matching pair instead of the first.
findLast(pairs, k) ==
    IF pairs = <<>> THEN <<>>
    ELSE IF findLast(Tail(pairs), k) /= <<>> THEN findLast(Tail(pairs), k)
    ELSE IF Head(pairs).remove = k \/ Head(pairs).add = k THEN <<Head(pairs)>>
    ELSE <<>>

RECURSIVE find(_, _)
\* linePairs.find(p => p.remove === i || p.add === i) (line 209): the first
\* matching pair as a one-element sequence, <<>> for undefined.
find(pairs, k) ==
    IF pairs = <<>> THEN <<>>
    ELSE IF Head(pairs).remove = k \/ Head(pairs).add = k THEN <<Head(pairs)>>
    ELSE find(Tail(pairs), k)

----------------------------------------------------------------------------
(* The word diff (lines 158-161).  diffWordsWithSpace is a function of the  *)
(* "diff" package; it is modelled by its contract: an ordered sequence of   *)
(* parts with non-empty values, each unchanged, added or removed, where the *)
(* parts that are not added concatenate to the old text and the parts that  *)
(* are not removed concatenate to the new text.                             *)

part(value, added, removed) == [value |-> value, added |-> added, removed |-> removed]

RECURSIVE wordDiffParts(_, _, _)
\* Every part sequence of at most n parts that satisfies the contract for
\* (old, new).
wordDiffParts(old, new, n) ==
    (IF old = <<>> /\ new = <<>> THEN {<<>>} ELSE {})
    \cup
    (IF n = 0 THEN {}
     ELSE { <<part(SubSeq(old, 1, m), FALSE, TRUE)>> \o rest :
                <<m, rest>> \in UNION { {m} \X wordDiffParts(SubSeq(old, m + 1, Len(old)), new, n - 1) :
                                         m \in 1..Len(old) } }
          \cup
          { <<part(SubSeq(new, 1, m), TRUE, FALSE)>> \o rest :
                <<m, rest>> \in UNION { {m} \X wordDiffParts(old, SubSeq(new, m + 1, Len(new)), n - 1) :
                                         m \in 1..Len(new) } }
          \cup
          { <<part(SubSeq(old, 1, m), FALSE, FALSE)>> \o rest :
                <<m, rest>> \in UNION { {m} \X wordDiffParts(SubSeq(old, m + 1, Len(old)),
                                                             SubSeq(new, m + 1, Len(new)), n - 1) :
                                         m \in { q \in 1..Len(old) :
                                                   q <= Len(new) /\ SubSeq(old, 1, q) = SubSeq(new, 1, q) } } })

\* getWordDiff(oldLine, newLine): the values the call may return.
getWordDiff(oldLine, newLine) == wordDiffParts(oldLine, newLine, MaxParts)

\* The values a call may return given the calls already answered: the library
\* is a deterministic function, so equal arguments give the equal result.
answers(known, oldLine, newLine) ==
    LET same == { c \in known : c.old = oldLine /\ c.new = newLine }
    IN  IF same = {} THEN getWordDiff(oldLine, newLine)
        ELSE { c.parts : c \in same }

----------------------------------------------------------------------------
(* formatDiff: one iteration of the row loop (lines 205-279). *)

\* Which branch of lines 211, 235, 259 the iteration for index k takes.
branch(pairs, k) ==
    LET pair == find(pairs, k)
    IN  IF pair /= <<>> /\ pair[1].remove = k THEN "pairedRemove"
        ELSE IF pair /= <<>> /\ pair[1].add = k THEN "pairedAdd"
        ELSE "regular"

\* removedText of lines 213 and 237.
removedText(pl, pairs, k) ==
    IF branch(pairs, k) = "pairedRemove" THEN pl[k + 1].code
    ELSE pl[find(pairs, k)[1].remove + 1].code

\* addedText of lines 214 and 238.
addedText(pl, pairs, k) ==
    IF branch(pairs, k) = "pairedRemove" THEN pl[find(pairs, k)[1].add + 1].code
    ELSE pl[k + 1].code

span(value, backgroundColor) == [value |-> value, backgroundColor |-> backgroundColor]

\* removedContent (lines 218-232): every part becomes a child, a removed part
\* with the "removed" background.
removedContent(wordDiff) ==
    [backgroundColor |-> "removedLight", marker |-> "-",
     children |-> [p \in 1..Len(wordDiff) |->
                     IF wordDiff[p].removed THEN span(wordDiff[p].value, "removed")
                     ELSE span(wordDiff[p].value, "none")]]

\* addedContent (lines 242-256): every part becomes a child, an added part
\* with the "added" background.
addedContent(wordDiff) ==
    [backgroundColor |-> "addedLight", marker |-> "+",
     children |-> [p \in 1..Len(wordDiff) |->
                     IF wordDiff[p].added THEN span(wordDiff[p].value, "added")
                     ELSE span(wordDiff[p].value, "none")]]

\* content of a regular line (lines 261-271); a context line is a fragment of
\* one space and the code.
regularContent(type, code) ==
    IF type = "add" THEN
        [backgroundColor |-> "addedLight", marker |-> "+", children |-> <<span(code, "none")>>]
    ELSE IF type = "remove" THEN
        [backgroundColor |-> "removedLight", marker |-> "-", children |-> <<span(code, "none")>>]
    ELSE
        [backgroundColor |-> "none", marker |-> " ", children |-> <<span(code, "none")>>]

\* The content of row k, given the word diff of a paired line.
content(pl, pairs, k, wordDiff) ==
    IF branch(pairs, k) = "pairedRemove" THEN removedContent(wordDiff)
    ELSE IF branch(pairs, k) = "pairedAdd" THEN addedContent(wordDiff)
    ELSE regularContent(pl[k + 1].type, pl[k + 1].code)

\* A counter that every line advances.
advanceAlways(type, n) == n + 1

\* Lines 276-278: the counter after the row of a line of this type.
advance(type, n) == IF type = "nochange" \/ type = "add" THEN n + 1 ELSE n

\* A row loop that stops one line early.
rowLoopCondShort(k, pl) == k < Len(pl) - 1

\* The condition of the row loop (line 205).
rowLoopCond(k, pl) == k < Len(pl)

----------------------------------------------------------------------------
(* formatDiff: padding (lines 281-293). *)

RECURSIVE max(_)
\* Math.max(...numbers) of a non-empty sequence.
max(ns) ==
    IF Len(ns) = 1 THEN ns[1]
    ELSE LET m == max(Tail(ns)) IN IF ns[1] > m THEN ns[1] ELSE m

\* A width taken from the first row instead of the largest number.
maxWidthFirst(rows) ==
    IF rows = <<>> THEN Len(<<"-", "I", "n", "f", "i", "n", "i", "t", "y">>)
    ELSE Len(toString(rows[1].lineNumber))

\* maxWidth (lines 281-282); Math.max() of no numbers is -Infinity, whose
\* string is "-Infinity".
maxWidth(rows) ==
    IF rows = <<>> THEN Len(<<"-", "I", "n", "f", "i", "n", "i", "t", "y">>)
    ELSE Len(toString(max([k \in 1..Len(rows) |-> rows[k].lineNumber])))

\* lineNumberText (line 285).
lineNumberText(n, width) == padStart(toString(n), width)

\* The rows formatDiff returns (lines 284-293): the padded number, which a
\* space follows on the screen, and the content.
paddedRows(rows) ==
    [k \in 1..Len(rows) |->
        [lineNumberText |-> lineNumberText(rows[k].lineNumber, maxWidth(rows)),
         code |-> rows[k].code]]

\* The number formatDiff starts counting from (line 296).
startingLineNumber(patch) == patch.oldStart

----------------------------------------------------------------------------
(* FileEditPreview (lines 45-75). *)

\* A separator pushed after every hunk, the last one included.
pushEllipsisAlways(k, n) == k < n

\* The condition of line 64: the hunk of index k is followed by another one.
pushEllipsis(k, n) == k < n - 1

\* The elements the flatMap callback returns for hunk k (lines 55-71).
elements(patch, k, n, rows) ==
    <<[el |-> "hunk", key |-> patch.newStart, children |-> rows]>>
    \o (IF pushEllipsis(k, n)
        THEN <<[el |-> "ellipsis", key |-> k, children |-> <<>>]>>
        ELSE <<>>)

----------------------------------------------------------------------------
(* Inputs. *)

SeqsUpTo(S, n) == UNION { [1..m -> S] : m \in 0..n }

\* Numbering family: one hunk of blank context, added and removed lines, with
\* starts on both sides of a change of digit count.
KindLines == { <<" ">>, <<"+">>, <<"-">> }
Starts == {1, 9, 98}
NumberingHunks ==
    [oldStart : Starts, newStart : Starts, lines : SeqsUpTo(KindLines, MaxLines)]

\* Text family: one hunk whose lines carry different texts.
TextLines == { <<"-", "a">>, <<"-", "b">>, <<"+", "a">>, <<"+", "b">>, <<" ", "a">> }
TextHunks == [oldStart : {1}, newStart : {1}, lines : SeqsUpTo(TextLines, MaxTextLines)]

\* Classification family: one hunk of one raw line, any string over Chars.
Chars == {"+", "-", " ", "a"}
RawLines == SeqsUpTo(Chars, MaxLineLen)
ClassifyHunks == [oldStart : {1}, newStart : {1}, lines : { <<l>> : l \in RawLines }]

\* Multi-hunk family: lists of hunks, empty ones included.
PreviewHunks ==
    { [oldStart |-> s, newStart |-> s + 1, lines |-> ls] :
        s \in {1, 99}, ls \in { <<>>, << <<"-">> >>, << <<"-">>, <<"+">> >> } }

HunkLists ==
    { <<h>> : h \in NumberingHunks \cup TextHunks \cup ClassifyHunks }
    \cup SeqsUpTo(PreviewHunks, MaxHunks)

\* Replacement family: one hunk whose Removed lines read "a" and whose Added
\* lines read "b", so that every word diff of a pair has a removed and an
\* added part.
ReplacementLines == { <<"-", "a">>, <<"+", "b">>, <<" ", "a">> }
ReplacementHunks ==
    [oldStart : {1}, newStart : {1}, lines : SeqsUpTo(ReplacementLines, MaxTextLines)]

----------------------------------------------------------------------------
(* The render. *)

\* FileEditPreview is called with the hunk list hs; nothing is rendered yet.
Called(hs) ==
    /\ hunks = hs
    /\ pc = "flatMap"
    /\ hunkIndex = 0
    /\ output = <<>>
    /\ processedLines = <<>>
    /\ linePairs = <<>>
    /\ i = 0
    /\ lineNumber = 0
    /\ result = <<>>
    /\ locals = <<>>
    /\ wordDiffs = {}
    /\ diff = <<>>

Init == \E hs \in HunkLists : Called(hs)

InitReplacement == \E h \in ReplacementHunks : Called(<<h>>)

\* The flatMap callback enters StructuredDiff and formatDiff for the hunk of
\* index hunkIndex (lines 54, 61, 296, 166-203).
StructuredDiff ==
    /\ pc = "flatMap"
    /\ hunkIndex < Len(hunks)
    /\ LET patch == hunks[hunkIndex + 1]
           pl == processLines(patch.lines)
       IN  /\ processedLines' = pl
           /\ linePairs' = buildLinePairs(pl, 0)
           /\ lineNumber' = startingLineNumber(patch)
    /\ result' = <<>>
    /\ locals' = <<>>
    /\ i' = 0
    /\ pc' = "formatDiff"
    /\ UNCHANGED <<hunks, hunkIndex, output, wordDiffs, diff>>

\* One iteration of the row loop (lines 205-279).
EmitRow ==
    /\ pc = "formatDiff"
    /\ rowLoopCond(i, processedLines)
    /\ LET type == processedLines[i + 1].type
           paired == branch(linePairs, i) /= "regular"
           old == IF paired THEN removedText(processedLines, linePairs, i) ELSE <<>>
           new == IF paired THEN addedText(processedLines, linePairs, i) ELSE <<>>
       IN  \E wordDiff \in (IF paired THEN answers(wordDiffs, old, new) ELSE {<<>>}) :
             /\ result' = Append(result,
                    [code |-> content(processedLines, linePairs, i, wordDiff),
                     type |-> type,
                     lineNumber |-> lineNumber])
             /\ locals' = Append(locals,
                    [pair |-> IF paired THEN find(linePairs, i) ELSE <<>>,
                     wordDiffOf |-> IF paired THEN <<old, new>> ELSE <<>>,
                     wordDiff |-> wordDiff])
             /\ wordDiffs' = IF paired
                             THEN wordDiffs \cup {[old |-> old, new |-> new, parts |-> wordDiff]}
                             ELSE wordDiffs
             /\ lineNumber' = advance(type, lineNumber)
    /\ i' = i + 1
    /\ UNCHANGED <<hunks, pc, hunkIndex, output, processedLines, linePairs, diff>>

\* formatDiff returns the padded rows; the callback returns the hunk's Box
\* and, before another hunk, the ellipsis (lines 281-303, 55-71).
FinishHunk ==
    /\ pc = "formatDiff"
    /\ ~rowLoopCond(i, processedLines)
    /\ diff' = paddedRows(result)
    /\ output' = output \o elements(hunks[hunkIndex + 1], hunkIndex, Len(hunks), diff')
    /\ hunkIndex' = hunkIndex + 1
    /\ pc' = "flatMap"
    /\ UNCHANGED <<hunks, processedLines, linePairs, i, lineNumber, result, locals,
                   wordDiffs>>

\* flatMap has visited every hunk; FileEditPreview returns the Box (lines 52-74).
Return ==
    /\ pc = "flatMap"
    /\ hunkIndex >= Len(hunks)
    /\ pc' = "done"
    /\ UNCHANGED <<hunks, hunkIndex, output, processedLines, linePairs, i,
                   lineNumber, result, locals, wordDiffs, diff>>

Next == StructuredDiff \/ EmitRow \/ FinishHunk \/ Return

Spec == Init /\ [][Next]_vars

\* The render of the hunks of the replacement family.
SpecReplacement == InitReplacement /\ [][Next]_vars

----------------------------------------------------------------------------
(* Vocabulary of the properties, stated on the raw lines of the hunk.       *)

\* The kind of a raw line by its marker.
LineKind(raw) ==
    IF raw /= <<>> /\ raw[1] = "+" THEN "Added"
    ELSE IF raw /= <<>> /\ raw[1] = "-" THEN "Removed"
    ELSE "Context"

\* The text of a raw line: the marker of an Added or Removed line replaced by
\* one space.
LineText(raw) ==
    IF LineKind(raw) = "Context" THEN raw
    ELSE <<" ">> \o SubSeq(raw, 2, Len(raw))

\* The type formatDiff names a kind by.
TypeOf(kind) ==
    IF kind = "Added" THEN "add" ELSE IF kind = "Removed" THEN "remove" ELSE "nochange"

\* result, processedLines and linePairs belong to a hunk.
Formatted == pc = "formatDiff" \/ hunkIndex > 0

\* That hunk (only where Formatted).
Patch == IF pc = "formatDiff" THEN hunks[hunkIndex + 1] ELSE hunks[hunkIndex]

\* The row loop of that hunk has ended and formatDiff has returned.
Returned == pc /= "formatDiff" /\ hunkIndex > 0

\* The line of 1-based position k counts in the new file.
InNewFile(lines, k) == LineKind(lines[k]) \in {"Context", "Added"}

\* The first position after k whose line is not Removed, Len(lines) + 1 when
\* there is none.
AfterRun(lines, k) ==
    CHOOSE j \in (k + 1)..(Len(lines) + 1) :
        /\ j = Len(lines) + 1 \/ LineKind(lines[j]) /= "Removed"
        /\ \A m \in (k + 1)..(j - 1) : LineKind(lines[m]) = "Removed"

\* The Removed line at k is followed, after its run, by an Added line.
RunMeetsAdded(lines, k) ==
    /\ LineKind(lines[k]) = "Removed"
    /\ AfterRun(lines, k) <= Len(lines)
    /\ LineKind(lines[AfterRun(lines, k)]) = "Added"

\* The first position of the run of Removed lines that ends at k.
RunStart(lines, k) ==
    CHOOSE f \in 1..k :
        /\ \A m \in f..k : LineKind(lines[m]) = "Removed"
        /\ f = 1 \/ LineKind(lines[f - 1]) /= "Removed"

\* The text a row shows after its marker.
RowText(row) == concat([c \in 1..Len(row.code.children) |-> row.code.children[c].value])

SetMax(S) == CHOOSE x \in S : \A y \in S : y <= x
SetMin(S) == CHOOSE x \in S : \A y \in S : x <= y

\* The number of decimal digits of a number below 10000.
Digits(n) == CHOOSE d \in 1..4 : (d = 1 \/ n >= 10 ^ (d - 1)) /\ n < 10 ^ d

RECURSIVE DecimalValue(_)
\* The number a non-empty string of decimal digits denotes.
DecimalValue(s) ==
    LET v == CHOOSE d \in 0..9 : <<"0", "1", "2", "3", "4", "5", "6", "7", "8", "9">>[d + 1] = s[Len(s)]
    IN  IF Len(s) = 1 THEN v ELSE 10 * DecimalValue(SubSeq(s, 1, Len(s) - 1)) + v

IsDigit(c) == c \in {"0", "1", "2", "3", "4", "5", "6", "7", "8", "9"}

\* The number of leading spaces of a line-number string.
Padding(t) == SetMax({ q \in 0..Len(t) : \A m \in 1..q : t[m] = " " })

\* t is a decimal number without leading zeros, right-aligned by spaces.
RightAligned(t) ==
    LET q == Padding(t)
    IN  /\ q < Len(t)
        /\ \A m \in (q + 1)..Len(t) : IsDigit(t[m])
        /\ t[q + 1] /= "0" \/ q + 1 = Len(t)

\* The number a right-aligned line-number string shows.
Shown(t) == DecimalValue(SubSeq(t, Padding(t) + 1, Len(t)))

\* The hunk boxes of the output, in output order.
HunkBoxes == SelectSeq(output, LAMBDA e : e.el = "hunk")

----------------------------------------------------------------------------
(* Properties. *)

\* C1: for every paired Removed row, the text after the '-' marker is made of
\* the parts that are not marked added and equals the Removed line's text;
\* for every paired Added row, the text after the '+' marker is made of the
\* parts that are not marked removed and equals the Added line's text.
C1_PairedRowsReconstructTheirLine ==
    Formatted =>
        \A k \in 1..Len(result) :
            locals[k].pair /= <<>> =>
                /\ RowText(result[k]) = LineText(Patch.lines[k])
                /\ LineKind(Patch.lines[k]) = "Removed" =>
                       result[k].code.children =
                           [c \in 1..Len(SelectSeq(locals[k].wordDiff, LAMBDA q : ~q.added)) |->
                               span(SelectSeq(locals[k].wordDiff, LAMBDA q : ~q.added)[c].value,
                                    IF SelectSeq(locals[k].wordDiff, LAMBDA q : ~q.added)[c].removed
                                    THEN "removed" ELSE "none")]
                /\ LineKind(Patch.lines[k]) = "Added" =>
                       result[k].code.children =
                           [c \in 1..Len(SelectSeq(locals[k].wordDiff, LAMBDA q : ~q.removed)) |->
                               span(SelectSeq(locals[k].wordDiff, LAMBDA q : ~q.removed)[c].value,
                                    IF SelectSeq(locals[k].wordDiff, LAMBDA q : ~q.removed)[c].added
                                    THEN "added" ELSE "none")]

\* C2: the line number of every Context or Added row is hunk.newStart plus
\* the number of Context and Added lines before it in the hunk.
C2_NewFileLineNumbers ==
    Formatted =>
        \A k \in 1..Len(result) :
            InNewFile(Patch.lines, k) =>
                result[k].lineNumber =
                    Patch.newStart
                    + Cardinality({ m \in 1..(k - 1) : InNewFile(Patch.lines, m) })

\* C3: within a hunk the raw line numbers never decrease; a Context or Added
\* row shows 1 more than the previous Context or Added row (the first one
\* the starting number); a Removed row shows the number of the next Context
\* or Added row, or the counter when none follows; the counter is the
\* starting number plus the Context and Added rows emitted, so a Removed
\* line never advances it.
C3_LineNumbersStepByNewFileRows ==
    Formatted =>
        /\ \A k \in 2..Len(result) : result[k - 1].lineNumber <= result[k].lineNumber
        /\ \A k \in 1..Len(result) :
              LET before == { m \in 1..(k - 1) : InNewFile(Patch.lines, m) }
                  after == { m \in (k + 1)..Len(result) : InNewFile(Patch.lines, m) }
              IN  IF InNewFile(Patch.lines, k)
                  THEN result[k].lineNumber =
                           IF before = {} THEN startingLineNumber(Patch)
                           ELSE result[SetMax(before)].lineNumber + 1
                  ELSE result[k].lineNumber =
                           IF after = {} THEN lineNumber
                           ELSE result[SetMin(after)].lineNumber
        /\ lineNumber = startingLineNumber(Patch)
             + Cardinality({ m \in 1..Len(result) : InNewFile(Patch.lines, m) })

C3_Witness ==
    /\ Returned
    /\ Len(result) >= 4
    /\ LineKind(Patch.lines[1]) = "Context"
    /\ LineKind(Patch.lines[2]) = "Removed"
    /\ LineKind(Patch.lines[3]) = "Added"
    /\ LineKind(Patch.lines[4]) = "Removed"
    /\ result[2].lineNumber = result[3].lineNumber
    /\ result[4].lineNumber = lineNumber

\* C4: n hunks give max(0, n - 1) separators, one between the boxes of each
\* two consecutive hunks and none before the first or after the last; the
\* hunk boxes keep the input order; no hunks give an empty output.
C4_OneSeparatorBetweenHunks ==
    pc = "done" =>
        /\ Len(output) = IF Len(hunks) = 0 THEN 0 ELSE 2 * Len(hunks) - 1
        /\ Cardinality({ k \in 1..Len(output) : output[k].el = "ellipsis" })
             = IF Len(hunks) = 0 THEN 0 ELSE Len(hunks) - 1
        /\ \A k \in 1..Len(output) :
              IF k % 2 = 1
              THEN /\ output[k].el = "hunk"
                   /\ output[k].key = hunks[(k + 1) \div 2].newStart
                   /\ Len(output[k].children) = Len(hunks[(k + 1) \div 2].lines)
              ELSE output[k].el = "ellipsis"

C4_Witness ==
    /\ pc = "done"
    /\ Len(hunks) = 3
    /\ Len(output) = 5
    /\ hunks[1] /= hunks[2]
    /\ hunks[2].lines = <<>>
    /\ output[2].el = "ellipsis"
    /\ output[4].el = "ellipsis"

\* C5: every Removed line of a run that is followed by an Added line at j is
\* rendered from the word diff of its own text against the text of line j.
C5_WholeRunPairsWithTheAddedLine ==
    Formatted =>
        \A k \in 1..Len(result) :
            RunMeetsAdded(Patch.lines, k) =>
                LET j == AfterRun(Patch.lines, k)
                IN  /\ locals[k].pair = <<[remove |-> k - 1, add |-> j - 1]>>
                    /\ locals[k].wordDiffOf =
                           <<LineText(Patch.lines[k]), LineText(Patch.lines[j])>>
                    /\ result[k].code.marker = "-"
                    /\ Len(result[k].code.children) = Len(locals[k].wordDiff)
                    /\ \A c \in 1..Len(locals[k].wordDiff) :
                           result[k].code.children[c].value = locals[k].wordDiff[c].value

C5_Witness ==
    /\ Returned
    /\ Len(result) = 3
    /\ Patch.lines = << <<"-", "a">>, <<"-", "b">>, <<"+", "a">> >>
    /\ locals[1].wordDiffOf = << <<" ", "a">>, <<" ", "a">> >>
    /\ locals[2].wordDiffOf = << <<" ", "b">>, <<" ", "a">> >>

\* C6: the pairing relations of a hunk are exactly the (i, j) with line i
\* Removed, j the first later index whose line is not Removed, and line j
\* Added; at most one relation per Removed index.
C6_PairingRelations ==
    Formatted =>
        LET lines == Patch.lines
            pairs == { linePairs[p] : p \in 1..Len(linePairs) }
        IN  /\ pairs = { [remove |-> k - 1, add |-> AfterRun(lines, k) - 1] :
                            k \in { m \in 1..Len(lines) : RunMeetsAdded(lines, m) } }
            /\ \A p \in pairs :
                  /\ 0 <= p.remove /\ p.remove < p.add /\ p.add < Len(lines)
                  /\ LineKind(lines[p.remove + 1]) = "Removed"
                  /\ LineKind(lines[p.add + 1]) = "Added"
                  /\ \A m \in (p.remove + 1)..(p.add - 1) : LineKind(lines[m + 1]) = "Removed"
            /\ \A p, q \in 1..Len(linePairs) :
                  linePairs[p].remove = linePairs[q].remove => p = q
            /\ \A k \in 1..Len(lines) :
                  (LineKind(lines[k]) = "Removed" /\ ~RunMeetsAdded(lines, k))
                      => \A p \in pairs : p.remove /= k - 1

C6_Witness ==
    /\ Formatted
    /\ Len(Patch.lines) = 4
    /\ LineKind(Patch.lines[1]) = "Removed"
    /\ LineKind(Patch.lines[2]) = "Removed"
    /\ LineKind(Patch.lines[3]) = "Added"
    /\ LineKind(Patch.lines[4]) = "Removed"
    /\ linePairs = <<[remove |-> 0, add |-> 2], [remove |-> 1, add |-> 2]>>

\* C7: a hunk gets as many rows as it has raw lines, row k being the row of
\* line k, whichever lines are paired; a hunk with no lines gets no rows.
C7_OneRowPerLine ==
    /\ \A n \in 1..Len(HunkBoxes) : Len(HunkBoxes[n].children) = Len(hunks[n].lines)
    /\ Formatted =>
          /\ Len(result) = (IF pc = "formatDiff" THEN i ELSE Len(Patch.lines))
          /\ \A k \in 1..Len(result) :
                /\ result[k].type = TypeOf(LineKind(Patch.lines[k]))
                /\ locals[k].pair = <<>> => RowText(result[k]) = LineText(Patch.lines[k])
    /\ Returned =>
          /\ Len(diff) = Len(Patch.lines)
          /\ \A k \in 1..Len(diff) : diff[k].code = result[k].code
          /\ HunkBoxes[hunkIndex].children = diff

C7_Witness ==
    /\ pc = "done"
    /\ Len(hunks) = 2
    /\ hunks[1].lines = <<>>
    /\ Len(hunks[2].lines) = 2
    /\ HunkBoxes[1].children = <<>>
    /\ Len(HunkBoxes[2].children) = 2
    /\ locals[1].pair /= <<>>

\* C8: in every non-empty hunk all line-number strings have one length, the
\* number of decimal digits of the largest raw line number of the hunk's
\* rows, and each is the row's raw number in decimal, right-aligned by
\* spaces on the left; the width is that of the hunk, not of other hunks.
C8_LineNumberWidth ==
    /\ \A n \in 1..Len(HunkBoxes) :
          LET rows == HunkBoxes[n].children
          IN  \A k \in 1..Len(rows) :
                  /\ RightAligned(rows[k].lineNumberText)
                  /\ Len(rows[k].lineNumberText) =
                         Digits(SetMax({ Shown(rows[m].lineNumberText) : m \in 1..Len(rows) }))
    /\ Returned =>
          \A k \in 1..Len(diff) :
              /\ Shown(diff[k].lineNumberText) = result[k].lineNumber
              /\ Len(diff[k].lineNumberText) =
                     Digits(SetMax({ result[m].lineNumber : m \in 1..Len(result) }))

C8_Witness ==
    /\ Returned
    /\ Len(diff) = 4
    /\ result[1].lineNumber = 98
    /\ result[4].lineNumber = 100
    /\ diff[1].lineNumberText = <<" ", "9", "8">>
    /\ diff[4].lineNumberText = <<"1", "0", "0">>

\* C9: classification is total and keeps the order: a line starting with '+'
\* is Added and one starting with '-' is Removed, both with the text one
\* space followed by the rest of the line (as long as the raw line); any
\* other line, the empty one included, is Context with its text unchanged.
C9_Classification ==
    Formatted =>
        /\ Len(processedLines) = Len(Patch.lines)
        /\ \A k \in 1..Len(Patch.lines) :
              LET raw == Patch.lines[k]
                  line == processedLines[k]
              IN  /\ line.originalCode = raw
                  /\ (raw /= <<>> /\ raw[1] = "+") =>
                         /\ line.type = "add"
                         /\ line.code = <<" ">> \o SubSeq(raw, 2, Len(raw))
                         /\ Len(line.code) = Len(raw)
                  /\ (raw /= <<>> /\ raw[1] = "-") =>
                         /\ line.type = "remove"
                         /\ line.code = <<" ">> \o SubSeq(raw, 2, Len(raw))
                         /\ Len(line.code) = Len(raw)
                  /\ (raw = <<>> \/ raw[1] \notin {"+", "-"}) =>
                         /\ line.type = "nochange"
                         /\ line.code = raw

C9_Witness ==
    /\ Formatted
    /\ Len(processedLines) = 1
    /\ Patch.lines[1] = <<"+", "-", "a">>
    /\ processedLines[1].type = "add"
    /\ processedLines[1].code = <<" ", "-", "a">>

\* C10: an Added line at j gets word-level highlighting exactly when line
\* j - 1 is Removed, and then from the word diff of the first line of the
\* Removed run that ends at j - 1 against line j; any other Added line is a
\* whole-line addition.
C10_AddedRowUsesFirstRemovedOfRun ==
    Formatted =>
        \A k \in 1..Len(result) :
            LineKind(Patch.lines[k]) = "Added" =>
                IF k > 1 /\ LineKind(Patch.lines[k - 1]) = "Removed"
                THEN LET f == RunStart(Patch.lines, k - 1)
                     IN  /\ locals[k].pair = <<[remove |-> f - 1, add |-> k - 1]>>
                         /\ locals[k].wordDiffOf =
                                <<LineText(Patch.lines[f]), LineText(Patch.lines[k])>>
                         /\ result[k].code.marker = "+"
                         /\ Len(result[k].code.children) = Len(locals[k].wordDiff)
                         /\ \A c \in 1..Len(locals[k].wordDiff) :
                                result[k].code.children[c].value = locals[k].wordDiff[c].value
                ELSE /\ locals[k].pair = <<>>
                     /\ result[k].code =
                            [backgroundColor |-> "addedLight", marker |-> "+",
                             children |-> <<span(LineText(Patch.lines[k]), "none")>>]

C10_Witness ==
    /\ Returned
    /\ Patch.lines = << <<"-", "a">>, <<"-", "b">>, <<"+", "b">> >>
    /\ locals[3].wordDiffOf = << <<" ", "a">>, <<" ", "b">> >>
    /\ locals[3].pair = <<[remove |-> 0, add |-> 2]>>
====
